---------------------------- MODULE Spec2Model ----------------------------
(***************************************************************************)
(* Pump specification compliance checker (project-rfq).                    *)
(*                                                                         *)
(* Two two-column tables (Parameter, Value), the customer RFQ and the      *)
(* engineering specification, are parsed (utils/parser.py), compared       *)
(* parameter by parameter against PARAM_META (utils/comparer.py), scored    *)
(* and summarized (utils/report.py).  The top-issues list of the summary   *)
(* and the Equivalence Registry normalizers of the field extractor are     *)
(* specified on their own (SpecReport, SpecNormalize).                     *)
(*                                                                         *)
(* Representation.                                                         *)
(*   - A cell value is a record [t, n, s]: a number (t = "num", n its      *)
(*     value in tenths, so 35 is 3.5), a string (t = "str"), the float     *)
(*     NaN that pandas puts in a blank cell (t = "nan"), or Python's None  *)
(*     (t = "none").  Every number of the model is a multiple of 0.5, so   *)
(*     the differences the code computes in binary floating point are      *)
(*     exact.                                                              *)
(*   - A tolerance is kept in hundredths (0.05 is 5, 3.0 is 300).          *)
(*   - Python's string functions are tables over the finite vocabulary of  *)
(*     labels the model draws from.                                        *)
(*   - Parameter names are written in ASCII: "Flow (m3/h)" is the source's *)
(*     'Flow (m^3/h)' with a superscript three, "Design Temperature (C)"   *)
(*     the source's 'Design Temperature (deg C)' with a degree sign.       *)
(***************************************************************************)
EXTENDS Integers, Sequences, FiniteSets, TLC

VARIABLES
    rfq_file,    \* the uploaded customer table, as the spreadsheet reader sees it
    eng_file,    \* the uploaded engineering table
    rfq_df,      \* st.session_state['rfq_df'] after parsing
    eng_df,      \* st.session_state['eng_df'] after parsing
    result_df,   \* the compliance matrix (a sequence of rows)
    score,       \* weighted_compliance_score(result_df), an exact fraction
    prev_score,  \* the score before a row was last set to OK (NoScore: never)
    report,      \* the KPIs build_executive_pdf returns (NoReport: none yet)
    top,         \* the last _top_issues call: its limit and its result
    norm,        \* a label and its Equivalence Registry normalizations
    pc           \* position in the app's script run

vars == <<rfq_file, eng_file, rfq_df, eng_df, result_df, score, prev_score,
          report, top, norm, pc>>

---------------------------------------------------------------------------
(* Values *)

Num(x) == [t |-> "num", n |-> x, s |-> ""]
Str(x) == [t |-> "str", n |-> 0, s |-> x]
NaN == [t |-> "nan", n |-> 0, s |-> ""]
None == [t |-> "none", n |-> 0, s |-> ""]
\* float(x) raised (ValueError on a string that is no number, TypeError on None)
Raised == [t |-> "raised", n |-> 0, s |-> ""]

Abs(x) == IF x < 0 THEN -x ELSE x

\* float(s) of the strings of the vocabulary that Python parses as numbers
NumericStrings == ("5.0" :> 50) @@ ("23" :> 230)

\* float(v)
ToFloat(v) ==
    CASE v.t = "num" -> v
      [] v.t = "nan" -> NaN
      [] v.t = "str" -> IF v.s \in DOMAIN NumericStrings
                          THEN Num(NumericStrings[v.s]) ELSE Raised
      [] OTHER -> Raised

\* e - c in floating point: NaN propagates
FSub(e, c) == IF e.t = "nan" \/ c.t = "nan" THEN NaN ELSE Num(e.n - c.n)

\* str(n) of the numbers that occur in enumerated cells (integers)
NumberText == (230 :> "23")

\* str(v)
PyStr(v) ==
    CASE v.t = "str" -> v.s
      [] v.t = "nan" -> "nan"
      [] v.t = "num" -> NumberText[v.n]

\* s.strip().lower() over the label vocabulary
StripLower ==
    ("A216 WCB" :> "a216 wcb") @@ ("wcb" :> "wcb") @@
    ("ASTM A216 WCB" :> "astm a216 wcb") @@ ("CF8M" :> "cf8m") @@
    ("A351 CF8M" :> "a351 cf8m") @@ ("Ductile Iron" :> "ductile iron") @@
    ("SS316" :> "ss316") @@ ("Duplex" :> "duplex") @@ ("A890 4A" :> "a890 4a") @@
    ("CA6NM" :> "ca6nm") @@
    ("53B" :> "53b") @@ ("Plan 53B" :> "plan 53b") @@ ("Plan 53A" :> "plan 53a") @@
    ("API Plan 52" :> "api plan 52") @@ ("52" :> "52") @@ ("23" :> "23") @@
    ("Plan 23" :> "plan 23") @@
    ("Ex d IIB T4" :> "ex d iib t4") @@ ("ex d  iib t4" :> "ex d  iib t4") @@
    ("Ex d" :> "ex d") @@ ("ATEX" :> "atex") @@
    ("API 610" :> "api 610") @@ ("api610" :> "api610") @@
    ("ISO 13709" :> "iso 13709") @@ ("API 610 latest" :> "api 610 latest") @@
    ("API 610 12th" :> "api 610 12th") @@ ("api 610" :> "api 610") @@
    ("API 682" :> "api 682") @@ ("api 682" :> "api 682") @@
    ("API 682 4th" :> "api 682 4th") @@
    ("A890 5A" :> "a890 5a") @@ ("53A" :> "53a") @@ ("Ex e" :> "ex e") @@
    ("nan" :> "nan") @@ ("abc" :> "abc") @@ ("5.0" :> "5.0") @@ ("4,5" :> "4,5") @@
    ("Dual Mechanical Seal" :> "dual mechanical seal") @@
    \* the alias keys of the Equivalence Registry, lower case as they are
    ("a216 wcb" :> "a216 wcb") @@ ("carbon steel" :> "carbon steel") @@
    ("cs" :> "cs") @@ ("cf8m" :> "cf8m") @@ ("a351 cf8m" :> "a351 cf8m") @@
    ("ca6nm" :> "ca6nm") @@ ("a743 ca6nm" :> "a743 ca6nm") @@
    ("duplex" :> "duplex") @@ ("a890 4a" :> "a890 4a") @@
    ("super duplex" :> "super duplex") @@ ("a890 5a" :> "a890 5a") @@
    ("ss316" :> "ss316") @@
    ("53b" :> "53b") @@ ("plan 53b" :> "plan 53b") @@ ("53a" :> "53a") @@
    ("plan 53a" :> "plan 53a") @@ ("plan 23" :> "plan 23") @@
    ("plan 52" :> "plan 52") @@
    ("ex d iib t4" :> "ex d iib t4") @@ ("ex d" :> "ex d") @@ ("ex e" :> "ex e") @@
    ("atex" :> "atex") @@
    ("api 610 latest" :> "api 610 latest") @@ ("iso 13709" :> "iso 13709")

---------------------------------------------------------------------------
(* utils/comparer.py: the rule table *)

NPSHA == "NPSH Available (m)"
NPSHR == "NPSH Required (m)"

Meta(p, c, t, k, cr) ==
    [param |-> p, category |-> c, tol |-> t, tol_type |-> k, criticality |-> cr]

PARAM_META == <<
    Meta("Flow (m3/h)",            "Hydraulic",  5,   "rel",  "Critical"),
    Meta("Head (m)",               "Hydraulic",  3,   "rel",  "Critical"),
    Meta("Efficiency (%)",         "Hydraulic",  2,   "rel",  "Major"),
    Meta(NPSHA,                    "Hydraulic",  0,   "abs",  "Critical"),
    Meta(NPSHR,                    "Hydraulic",  0,   "abs",  "Critical"),
    Meta("Speed (rpm)",            "Hydraulic",  5,   "rel",  "Major"),
    Meta("Impeller Diameter (mm)", "Hydraulic",  300, "abs",  "Major"),
    Meta("Casing Material",        "Materials",  0,   "enum", "Major"),
    Meta("Impeller Material",      "Materials",  0,   "enum", "Major"),
    Meta("Seal Plan",              "Sealing",    0,   "enum", "Critical"),
    Meta("Design Pressure (bar)",  "Mechanical", 0,   "abs",  "Critical"),
    Meta("Design Temperature (C)", "Mechanical", 0,   "abs",  "Major"),
    Meta("Standard - API 610",     "Standards",  0,   "enum", "Major"),
    Meta("Standard - API 682",     "Standards",  0,   "enum", "Major"),
    Meta("Motor Rating (kW)",      "Electrical", 10,  "rel",  "Major"),
    Meta("Motor Voltage (V)",      "Electrical", 10,  "rel",  "Minor"),
    Meta("Frequency (Hz)",         "Electrical", 0,   "abs",  "Minor"),
    Meta("Motor Protection",       "Electrical", 0,   "enum", "Major"),
    Meta("Noise (dBA)",            "Mechanical", 300, "abs",  "Minor"),
    Meta("Vibration (mm/s)",       "Mechanical", 50,  "abs",  "Minor"),
    Meta("Suction Nozzle (inch)",  "Hydraulic",  0,   "abs",  "Minor"),
    Meta("Discharge Nozzle (inch)","Hydraulic",  0,   "abs",  "Minor") >>

ParamNames == {PARAM_META[i].param : i \in DOMAIN PARAM_META}

MetaOf(p) == PARAM_META[CHOOSE i \in DOMAIN PARAM_META : PARAM_META[i].param = p]

Group(canonical, aliases) == [canonical |-> canonical, aliases |-> aliases]

\* EQUIV: per parameter, the groups (canonical label, lower-case aliases)
EQUIV ==
    ("Casing Material" :>
        {Group("A216 WCB", {"a216 wcb", "wcb", "carbon steel", "cs", "a216wcb"})}) @@
    ("Impeller Material" :>
        {Group("CF8M", {"cf8m", "a351 cf8m", "ss316"}),
         Group("CA6NM", {"ca6nm", "a743 ca6nm"}),
         Group("A890 4A", {"a890 4a", "duplex"}),
         Group("A890 5A", {"a890 5a", "super duplex"})}) @@
    ("Seal Plan" :>
        {Group("53B", {"53b", "plan 53b"}),
         Group("53A", {"53a", "plan 53a"}),
         Group("23", {"23", "plan 23"}),
         Group("52", {"52", "plan 52"})}) @@
    ("Motor Protection" :>
        {Group("Ex d IIB T4", {"ex d iib t4"}),
         Group("Ex d", {"ex d"}),
         Group("Ex e", {"ex e"}),
         Group("ATEX", {"atex"})}) @@
    ("Standard - API 610" :>
        {Group("API 610", {"api610", "api 610", "iso 13709"})}) @@
    ("Standard - API 682" :>
        {Group("API 682", {"api 682"})})

\* Mutant of Weight: every row counts the same
WeightFlat(c) == 1

\* WEIGHTS.get(c, 1), as weighted_compliance_score spells it
Weight(c) ==
    CASE c = "Critical" -> 3
      [] c = "Major" -> 2
      [] c = "Minor" -> 1
      [] OTHER -> 1

---------------------------------------------------------------------------
(* utils/comparer.py: the comparison engine *)

\* Mutant of _enum_match: without the test cust == eng, only the alias
\* groups decide
_enum_match_groups_only(param, cust_val, eng_val) ==
    IF cust_val = None \/ eng_val = None THEN FALSE
    ELSE LET cust == StripLower[PyStr(cust_val)]
             eng == StripLower[PyStr(eng_val)]
             groups == IF param \in DOMAIN EQUIV THEN EQUIV[param] ELSE {}
         IN  \E g \in groups :
                LET canon_l == StripLower[g.canonical]
                IN  /\ (cust \in g.aliases \/ cust = canon_l)
                    /\ (eng \in g.aliases \/ eng = canon_l)

\* _enum_match(param, cust_val, eng_val)
_enum_match(param, cust_val, eng_val) ==
    IF cust_val = None \/ eng_val = None THEN FALSE
    ELSE LET cust == StripLower[PyStr(cust_val)]
             eng == StripLower[PyStr(eng_val)]
             groups == IF param \in DOMAIN EQUIV THEN EQUIV[param] ELSE {}
         IN  \/ cust = eng
             \/ \E g \in groups :
                    LET canon_l == StripLower[g.canonical]
                    IN  /\ (cust \in g.aliases \/ cust = canon_l)
                        /\ (eng \in g.aliases \/ eng = canon_l)

\* Mutant of IsDesignMinimum: only the pressure is a minimum
IsDesignPressure(param) == param = "Design Pressure (bar)"

\* 'Design Pressure' in param or 'Design Temperature' in param
IsDesignMinimum(param) ==
    param \in {"Design Pressure (bar)", "Design Temperature (C)"}

\* Mutant of _compare_numeric: the windows test e - c, not abs(e - c)
_compare_numeric_signed(param, cust_val, eng_val, tol, tol_type) ==
    LET c == ToFloat(cust_val)
        e == ToFloat(eng_val)
        d == FSub(e, c)
    IN  IF c = Raised \/ e = Raised THEN [deviation |-> None, ok |-> FALSE]
        ELSE IF tol_type = "rel"
             THEN [deviation |-> d, ok |-> d.t = "num" /\ d.n * 100 <= Abs(c.n) * tol]
        ELSE IF tol_type = "abs"
             THEN IF IsDesignMinimum(param)
                  THEN [deviation |-> d,
                        ok |-> e.t = "num" /\ c.t = "num" /\ e.n >= c.n]
                  ELSE [deviation |-> d, ok |-> d.t = "num" /\ d.n * 10 <= tol]
        ELSE [deviation |-> None, ok |-> FALSE]

\* Mutant of _compare_numeric: a value that is no number passes
_compare_numeric_lenient(param, cust_val, eng_val, tol, tol_type) ==
    LET c == ToFloat(cust_val)
        e == ToFloat(eng_val)
        d == FSub(e, c)
    IN  IF c = Raised \/ e = Raised THEN [deviation |-> None, ok |-> TRUE]
        ELSE IF tol_type = "rel"
             THEN [deviation |-> d,
                   ok |-> d.t = "num" /\ Abs(d.n) * 100 <= Abs(c.n) * tol]
        ELSE IF tol_type = "abs"
             THEN IF IsDesignMinimum(param)
                  THEN [deviation |-> d,
                        ok |-> e.t = "num" /\ c.t = "num" /\ e.n >= c.n]
                  ELSE [deviation |-> d,
                        ok |-> d.t = "num" /\ Abs(d.n) * 10 <= tol]
        ELSE [deviation |-> None, ok |-> FALSE]

\* _compare_numeric(param, cust_val, eng_val, tol, tol_type): (deviation, ok)
_compare_numeric(param, cust_val, eng_val, tol, tol_type) ==
    LET c == ToFloat(cust_val)
        e == ToFloat(eng_val)
        d == FSub(e, c)
    IN  IF c = Raised \/ e = Raised THEN [deviation |-> None, ok |-> FALSE]
        ELSE IF tol_type = "rel"
             \* abs(e - c) <= abs(c) * tol; a comparison with NaN is False
             THEN [deviation |-> d,
                   ok |-> d.t = "num" /\ Abs(d.n) * 100 <= Abs(c.n) * tol]
        ELSE IF tol_type = "abs"
             THEN IF IsDesignMinimum(param)
                  THEN [deviation |-> d,
                        ok |-> e.t = "num" /\ c.t = "num" /\ e.n >= c.n]
                  \* abs(e - c) <= tol, e - c in tenths and tol in hundredths
                  ELSE [deviation |-> d,
                        ok |-> d.t = "num" /\ Abs(d.n) * 10 <= tol]
        ELSE [deviation |-> None, ok |-> FALSE]

RiskPair(risk, negotiation) == [risk |-> risk, negotiation |-> negotiation]

\* risk_and_negotiation(param, status, cust_val, eng_val)
risk_and_negotiation(param, status) ==
    LET low == RiskPair("Low", "None")
        pick(r, n) == IF status # "OK" THEN RiskPair(r, n) ELSE low
    IN  CASE param \in {"Flow (m3/h)", "Head (m)"} ->
                pick("High", "Offer impeller trim/VFD; show curve")
          [] param = "Seal Plan" ->
                pick("High", "Propose API 682 equivalent with justification")
          [] param \in {"Casing Material", "Impeller Material"} ->
                pick("Medium", "Material equivalency + corrosion data; upgrade option")
          [] param \in {NPSHA, NPSHR} ->
                pick("High", "Revise suction / booster / lower speed")
          [] param = "Design Pressure (bar)" ->
                pick("High", "Increase casing rating or justify duty envelope")
          [] param = "Efficiency (%)" ->
                pick("Medium", "LCC analysis or alternate hydraulics")
          [] param = "Motor Protection" ->
                pick("Medium", "Offer compliant Ex/ATEX or cert plan")
          [] OTHER -> low

\* the 'Tolerance' column
ToleranceText(meta) ==
    IF meta.tol_type = "rel"
    THEN CASE meta.tol = 5 -> "5%" [] meta.tol = 3 -> "3%"
           [] meta.tol = 2 -> "2%" [] meta.tol = 10 -> "10%"
    ELSE IF meta.tol > 0
         THEN CASE meta.tol = 300 -> "+-3.0" [] meta.tol = 50 -> "+-0.5"
         ELSE "Exact/Min"

\* Parameter labels as read, and label.strip()
Strip(label) == IF label = " Head (m) " THEN "Head (m)" ELSE label

\* {k: df[df['Parameter']==k]['Value'].iloc[0] for k in df['Parameter'].unique()}
\* over the stripped labels: the first row of each label wins
ValueMap(df) ==
    [k \in {Strip(df[i].Parameter) : i \in DOMAIN df} |->
        LET first == CHOOSE i \in DOMAIN df :
                        /\ Strip(df[i].Parameter) = k
                        /\ \A j \in DOMAIN df : Strip(df[j].Parameter) = k => i <= j
        IN  df[first].Value]

\* Mutant of Get: a label that only resembles the rule's name stands in for
\* it when the rule's own label is missing
GetLoose(m, k) ==
    IF k \in DOMAIN m THEN m[k]
    ELSE IF k = "Seal Plan" /\ "Seal Type" \in DOMAIN m /\ m["Seal Type"].t = "str"
         THEN m["Seal Type"]
         ELSE None

\* m.get(k, None)
Get(m, k) == IF k \in DOMAIN m THEN m[k] ELSE None

\* The status a pair of values gets in the per-parameter pass
PairVerdict(meta, cust_val, eng_val) ==
    IF cust_val # None /\ eng_val # None
    THEN IF meta.tol_type = "enum"
         THEN [deviation |-> None,
               status |-> IF _enum_match(meta.param, cust_val, eng_val)
                          THEN "OK" ELSE "Issue"]
         ELSE LET r == _compare_numeric(meta.param, cust_val, eng_val,
                                        meta.tol, meta.tol_type)
              IN  [deviation |-> r.deviation,
                   status |-> IF r.ok THEN "OK" ELSE "Issue"]
    ELSE [deviation |-> None, status |-> "Missing"]

\* One iteration of the loop over PARAM_META.items()
BuildRow(meta, rfq_map, eng_map) ==
    LET cust_val == Get(rfq_map, meta.param)
        eng_val == Get(eng_map, meta.param)
        v == PairVerdict(meta, cust_val, eng_val)
        rn == risk_and_negotiation(meta.param, v.status)
    IN  [Parameter |-> meta.param,
         Category |-> meta.category,
         Criticality |-> meta.criticality,
         CustomerSpec |-> cust_val,
         EngineeringSpec |-> eng_val,
         Tolerance |-> ToleranceText(meta),
         Deviation |-> v.deviation,
         Status |-> v.status,
         Severity |-> IF v.status = "OK" THEN "OK" ELSE meta.criticality,
         Risk |-> rn.risk,
         Negotiation |-> rn.negotiation]

\* Mutant of PerParameterRows: the loop runs over the customer document's
\* parameters instead of PARAM_META
PerParameterRowsOfDocument(rfq_map, eng_map) ==
    LET metas == SelectSeq(PARAM_META, LAMBDA m : m.param \in DOMAIN rfq_map)
    IN  [i \in DOMAIN metas |-> BuildRow(metas[i], rfq_map, eng_map)]

\* rows after the loop over PARAM_META, before the NPSH rule
PerParameterRows(rfq_map, eng_map) ==
    [i \in DOMAIN PARAM_META |-> BuildRow(PARAM_META[i], rfq_map, eng_map)]

\* Mutant of MarginOk: a margin of exactly 1.0 fails
MarginOkStrict(ava, req) ==
    LET m == FSub(ava, req) IN m.t = "num" /\ m.n > 10

\* (ava - req) >= 1.0
MarginOk(ava, req) ==
    LET m == FSub(ava, req) IN m.t = "num" /\ m.n >= 10

\* Mutant of NpshOverride: Missing rows are rewritten too
NpshOverrideAnyRow(r, margin_ok) ==
    IF r.Parameter \in {NPSHA, NPSHR}
    THEN [r EXCEPT !.Status = IF margin_ok THEN "OK" ELSE "Issue",
                   !.Severity = IF margin_ok THEN "OK" ELSE "Critical",
                   !.Risk = IF margin_ok THEN "Low" ELSE "High",
                   !.Negotiation = IF ~margin_ok
                                   THEN "Consider booster/suction mods" ELSE "None"]
    ELSE r

\* Mutant of NpshOverride: the status is rewritten, the severity is left as
\* the per-parameter pass set it
NpshOverrideStatusOnly(r, margin_ok) ==
    IF r.Parameter \in {NPSHA, NPSHR} /\ r.Status # "Missing"
    THEN [r EXCEPT !.Status = IF margin_ok THEN "OK" ELSE "Issue",
                   !.Risk = IF margin_ok THEN "Low" ELSE "High",
                   !.Negotiation = IF ~margin_ok
                                   THEN "Consider booster/suction mods" ELSE "None"]
    ELSE r

\* The row rewrite inside the NPSH loop
NpshOverride(r, margin_ok) ==
    IF r.Parameter \in {NPSHA, NPSHR} /\ r.Status # "Missing"
    THEN [r EXCEPT !.Status = IF margin_ok THEN "OK" ELSE "Issue",
                   !.Severity = IF margin_ok THEN "OK" ELSE "Critical",
                   !.Risk = IF margin_ok THEN "Low" ELSE "High",
                   !.Negotiation = IF ~margin_ok
                                   THEN "Consider booster/suction mods" ELSE "None"]
    ELSE r

\* The try block: float() of either side raising leaves the rows as they are
NpshMarginRule(rows, rfq_map, eng_map) ==
    LET ava == ToFloat(Get(rfq_map, NPSHA))
        req == ToFloat(Get(eng_map, NPSHR))
    IN  IF ava = Raised \/ req = Raised THEN rows
        ELSE [i \in DOMAIN rows |-> NpshOverride(rows[i], MarginOk(ava, req))]

\* compare_specs(rfq_df, eng_df)
compare_specs(rfq, eng) ==
    LET rfq_map == ValueMap(rfq)
        eng_map == ValueMap(eng)
    IN  NpshMarginRule(PerParameterRows(rfq_map, eng_map), rfq_map, eng_map)

\* An exact fraction n/d, d > 0
Frac(n, d) == [n |-> n, d |-> d]

RECURSIVE SumSeq(_)
SumSeq(s) == IF s = <<>> THEN 0 ELSE Head(s) + SumSeq(Tail(s))

\* Mutant of weighted_compliance_score: the rows that are not OK are the
\* ones counted
weighted_compliance_score_inverted(df) ==
    LET weights == [i \in DOMAIN df |-> Weight(df[i].Criticality)]
        achieved == [i \in DOMAIN df |-> IF df[i].Status # "OK" THEN 1 ELSE 0]
        denom == SumSeq(weights)
    IN  IF denom # 0
        THEN Frac(100 * SumSeq([i \in DOMAIN df |-> weights[i] * achieved[i]]), denom)
        ELSE Frac(0, 1)

\* weighted_compliance_score(df): 100.0 * (weights*achieved).sum() / denom,
\* 0.0 when denom is 0
weighted_compliance_score(df) ==
    LET weights == [i \in DOMAIN df |-> Weight(df[i].Criticality)]
        achieved == [i \in DOMAIN df |-> IF df[i].Status = "OK" THEN 1 ELSE 0]
        denom == SumSeq(weights)
    IN  IF denom # 0
        THEN Frac(100 * SumSeq([i \in DOMAIN df |-> weights[i] * achieved[i]]), denom)
        ELSE Frac(0, 1)

---------------------------------------------------------------------------
(* utils/report.py: the one-page summary *)

\* round(100.0 * n / d, 1) in tenths, d > 0: to the nearest tenth, a tie to
\* the even one
RoundTenths(n, d) ==
    LET q == (1000 * n) \div d
        r == (1000 * n) % d
    IN  IF 2 * r < d THEN q
        ELSE IF 2 * r > d THEN q + 1
        ELSE IF q % 2 = 0 THEN q ELSE q + 1

\* max(total, 1)
Max(a, b) == IF a >= b THEN a ELSE b

\* build_executive_pdf(result_df, ...): the KPIs of the returned dict, the
\* score in tenths of a percent.  The page it draws from them, and the list
\* _top_issues gives it, are not part of the returned dict.
build_executive_pdf(df) ==
    LET total == Len(df)
        crit == Cardinality({i \in DOMAIN df : df[i].Criticality = "Critical"})
        open_issues == Cardinality({i \in DOMAIN df :
                                       df[i].Status \in {"Issue", "Missing"}})
        ok_count == Cardinality({i \in DOMAIN df : df[i].Status = "OK"})
    IN  [score |-> RoundTenths(ok_count, Max(total, 1)),
         critical |-> crit,
         open_issues |-> open_issues]

\* _top_issues: weight.get(k, 1)
IssueWeight(k) ==
    CASE k = "Critical" -> 3 [] k = "Major" -> 2 [] k = "Minor" -> 1 [] OTHER -> 1

\* df[df["Status"].isin(["Issue","Missing"])]: the row numbers kept, in order
IssueIndex(df) ==
    LET keep(i) == df[i].Status \in {"Issue", "Missing"}
        RECURSIVE from(_)
        from(i) == IF i > Len(df) THEN <<>>
                   ELSE IF keep(i) THEN <<i>> \o from(i + 1) ELSE from(i + 1)
    IN  from(1)

\* sort_values(["w"], ascending=False) with the default kind='quicksort',
\* which is not stable: every arrangement in descending weight is a possible
\* result, rows of equal weight in any order
SortOrders(idx, w) ==
    {p \in Permutations(DOMAIN idx) :
        \A i, j \in DOMAIN idx : i < j => w[idx[p[i]]] >= w[idx[p[j]]]}

\* .head(n), n >= 0
head(seq, n) == SubSeq(seq, 1, IF n < Len(seq) THEN n ELSE Len(seq))

\* the f-string of one issue: the columns it prints
IssueText(r) ==
    [Parameter |-> r.Parameter, CustomerSpec |-> r.CustomerSpec,
     EngineeringSpec |-> r.EngineeringSpec, Status |-> r.Status, Risk |-> r.Risk]

\* _top_issues(df, n): the lists it can return
_top_issues(df, n) ==
    LET idx == IssueIndex(df)
        w == [i \in DOMAIN df |-> IssueWeight(df[i].Criticality)]
    IN  {head([k \in DOMAIN idx |-> IssueText(df[idx[p[k]]])], n) :
            p \in SortOrders(idx, w)}

---------------------------------------------------------------------------
(* utils/parser.py: the tabular adapter *)

Row(label, value) == [Parameter |-> label, Value |-> value]

\* parse_excel_or_csv(file): df[['Parameter','Value']] of the table read
parse_excel_or_csv(file) ==
    [i \in DOMAIN file |-> Row(file[i].Parameter, file[i].Value)]

---------------------------------------------------------------------------
(* utils/parser.py: the canonicalization stage of the field extractor *)

MATERIAL_EQUIV ==
    ("a216 wcb" :> "A216 WCB") @@ ("wcb" :> "A216 WCB") @@
    ("carbon steel" :> "A216 WCB") @@ ("cs" :> "A216 WCB") @@
    ("cf8m" :> "CF8M") @@ ("a351 cf8m" :> "CF8M") @@
    ("ca6nm" :> "CA6NM") @@ ("a743 ca6nm" :> "CA6NM") @@
    ("duplex" :> "A890 4A") @@ ("a890 4a" :> "A890 4A") @@
    ("super duplex" :> "A890 5A") @@ ("a890 5a" :> "A890 5A") @@
    ("ss316" :> "CF8M")

SEAL_PLAN_EQUIV ==
    ("53b" :> "53B") @@ ("plan 53b" :> "53B") @@
    ("53a" :> "53A") @@ ("plan 53a" :> "53A") @@
    ("23" :> "23") @@ ("plan 23" :> "23") @@
    ("52" :> "52") @@ ("plan 52" :> "52")

PROTECTION_EQUIV ==
    ("ex d iib t4" :> "Ex d IIB T4") @@ ("ex d" :> "Ex d") @@
    ("ex e" :> "Ex e") @@ ("atex" :> "ATEX")

API_EQUIV ==
    ("api 610 latest" :> "API 610") @@ ("api610" :> "API 610") @@
    ("iso 13709" :> "API 610") @@ ("api 682" :> "API 682")

\* d.get(k, default), the value found being a string
Lookup(d, k, default) == IF k \in DOMAIN d THEN Str(d[k]) ELSE default

\* The first number in the text, commas read as decimal points:
\* re.findall(r'-?\d+(?:\.\d+)?', s.replace(',', '.'))[0], in tenths
NumberInText == ("5.0" :> 50) @@ ("4,5" :> 45) @@ ("23" :> 230)

\* normalize_number(s)
normalize_number(s) ==
    CASE s.t = "num" -> s
      [] s.t = "nan" -> NaN
      [] s.t = "none" -> None
      [] s.t = "str" -> IF s.s \in DOMAIN NumberInText
                          THEN Num(NumberInText[s.s]) ELSE None

\* convert_unit(value, unit_str, target_unit) where unit_str is target_unit
\* itself, the only call the canonicalization of a value without a captured
\* unit makes: the magnitude is returned as it is (also when pint is absent
\* or raises)
convert_unit(value, unit_str, target_unit) == value

\* normalize_material(s)
normalize_material(s) ==
    IF s = None THEN None
    ELSE Lookup(MATERIAL_EQUIV, StripLower[PyStr(s)], s)

\* str(s).strip().lower().replace("api", "").replace("plan", "").strip()
SealPlanText ==
    ("53B" :> "53b") @@ ("Plan 53B" :> "53b") @@ ("Plan 53A" :> "53a") @@
    ("53A" :> "53a") @@ ("API Plan 52" :> "52") @@ ("52" :> "52") @@
    ("23" :> "23") @@ ("Plan 23" :> "23") @@
    ("53b" :> "53b") @@ ("plan 53b" :> "53b") @@ ("53a" :> "53a") @@
    ("plan 53a" :> "53a") @@ ("plan 23" :> "23") @@ ("plan 52" :> "52")

\* k.isdigit()
AllDigits == {"52", "23"}

\* "plan " + k
PlanPrefixed == ("52" :> "plan 52") @@ ("23" :> "plan 23")

\* k.replace("plan ", "")
WithoutPlan(k) ==
    CASE k = "plan 52" -> "52"
      [] k = "plan 23" -> "23"
      [] OTHER -> k

\* normalize_seal_plan(s); no text of the table starts with "plan" once
\* "plan" has been replaced
normalize_seal_plan(s) ==
    IF s = None THEN None
    ELSE LET k0 == SealPlanText[PyStr(s)]
             k == IF k0 \in AllDigits THEN PlanPrefixed[k0] ELSE k0
         IN  Lookup(SEAL_PLAN_EQUIV, k, Lookup(SEAL_PLAN_EQUIV, WithoutPlan(k), s))

\* re.sub(r'\s+', ' ', k)
CollapseSpaces(k) == IF k = "ex d  iib t4" THEN "ex d iib t4" ELSE k

\* Mutant of normalize_protection: a hit returns the alias key, not the
\* canonical label
normalize_protection_key(s) ==
    IF s = None THEN None
    ELSE LET k == CollapseSpaces(StripLower[PyStr(s)])
         IN  IF k \in DOMAIN PROTECTION_EQUIV THEN Str(k) ELSE s

\* normalize_protection(s)
normalize_protection(s) ==
    IF s = None THEN None
    ELSE Lookup(PROTECTION_EQUIV, CollapseSpaces(StripLower[PyStr(s)]), s)

\* normalize_api_std(s)
normalize_api_std(s) ==
    IF s = None THEN None
    ELSE Lookup(API_EQUIV, CollapseSpaces(StripLower[PyStr(s)]), s)

\* FIELDS: the canonical unit of each field that has one
FieldUnit ==
    ("Flow (m3/h)" :> "m^3/hour") @@ ("Head (m)" :> "meter") @@
    ("Efficiency (%)" :> "%") @@ (NPSHA :> "meter") @@ (NPSHR :> "meter") @@
    ("Speed (rpm)" :> "rpm") @@ ("Impeller Diameter (mm)" :> "millimeter") @@
    ("Design Pressure (bar)" :> "bar") @@ ("Design Temperature (C)" :> "degC") @@
    ("Motor Rating (kW)" :> "kW") @@ ("Motor Voltage (V)" :> "volt") @@
    ("Frequency (Hz)" :> "Hz") @@ ("Noise (dBA)" :> "dB") @@
    ("Vibration (mm/s)" :> "mm/second") @@ ("Suction Nozzle (inch)" :> "inch") @@
    ("Discharge Nozzle (inch)" :> "inch")

\* field['unit'] is not None
FieldHasUnit(param) == param \in DOMAIN FieldUnit

\* The Equivalence Registry normalization nlp_extract_kv applies to a field
NormalizeEnum(param, val) ==
    CASE param \in {"Casing Material", "Impeller Material"} -> normalize_material(val)
      [] param = "Seal Plan" -> normalize_seal_plan(val)
      [] param = "Motor Protection" -> normalize_protection(val)
      [] param \in {"Standard - API 610", "Standard - API 682"} -> normalize_api_std(val)
      [] OTHER -> val

\* nlp_extract_kv, after the pattern search: number normalization, unit
\* conversion and Equivalence Registry normalization of one field's value
Canonicalize(param, val) ==
    LET num == IF FieldHasUnit(param) /\ val # None
               THEN normalize_number(val) ELSE None
        v == IF num # None
             THEN convert_unit(num, FieldUnit[param], FieldUnit[param]) ELSE val
    IN  NormalizeEnum(param, v)

---------------------------------------------------------------------------
(* The documents the model draws *)

\* A label outside PARAM_META (app.py's sample data) and a padded label
ExtraLabel == "Seal Type"
PaddedLabel == " Head (m) "
Labels == ParamNames \cup {ExtraLabel, PaddedLabel}

NpshValues == {Num(35), Num(45), Num(50), Str("abc"), NaN}
NumericValues ==
    {Num(45), Num(50), Num(950), Num(980), Num(1000),
     Str("abc"), Str("5.0"), Str("4,5"), NaN}
EnumValues ==
    ("Casing Material" :>
        {Str("A216 WCB"), Str("wcb"), Str("ASTM A216 WCB"), Str("CF8M"),
         Str("A351 CF8M"), Str("Ductile Iron")}) @@
    ("Impeller Material" :>
        {Str("CF8M"), Str("A351 CF8M"), Str("SS316"), Str("Duplex"),
         Str("A890 4A"), Str("CA6NM")}) @@
    ("Seal Plan" :>
        {Str("53B"), Str("Plan 53B"), Str("Plan 53A"), Str("API Plan 52"),
         Str("52"), Num(230), Str("Plan 23")}) @@
    ("Motor Protection" :>
        {Str("Ex d IIB T4"), Str("ex d  iib t4"), Str("Ex d"), Str("ATEX"), NaN}) @@
    ("Standard - API 610" :>
        {Str("API 610"), Str("api610"), Str("ISO 13709"), Str("API 610 latest"),
         Str("API 610 12th"), Str("api 610")}) @@
    ("Standard - API 682" :>
        {Str("API 682"), Str("api 682"), Str("API 682 4th")})

\* The values a cell of the given label is drawn from
Values(label) ==
    IF label \in {NPSHA, NPSHR} THEN NpshValues
    ELSE IF label \in DOMAIN EnumValues THEN EnumValues[label]
    ELSE IF label = ExtraLabel THEN {Str("Dual Mechanical Seal"), Num(50)}
    ELSE NumericValues

\* A complete document: every parameter with the value of app.py's sample
\* data (or a plain one where the sample has none), and one extra label
DefaultValues == <<
    Num(5000), Num(1200), Num(800), Num(50), Num(35), Num(29800), Num(3000),
    Str("A216 WCB"), Str("CF8M"), Str("53B"), Num(250), Num(1200),
    Str("API 610"), Str("API 682"), Num(1850), Num(4150), Num(500),
    Str("Ex d IIB T4"), Num(850), Num(30), Num(80), Num(60) >>

FullDocument ==
    [i \in DOMAIN PARAM_META |-> Row(PARAM_META[i].param, DefaultValues[i])]
        \o << Row(ExtraLabel, Str("Dual Mechanical Seal")) >>

\* The labels whose cells vary: one label, or the two NPSH parameters
FocusLabels == {<<l>> : l \in Labels} \cup {<<NPSHA, NPSHR>>}

AllCells == UNION {Values(l) : l \in Labels} \cup {None}

\* The choices of cells for the focus labels (None: no row for the label)
Cells(focus) ==
    {c \in [DOMAIN focus -> AllCells] :
        \A i \in DOMAIN focus : c[i] \in Values(focus[i]) \cup {None}}

\* The focus rows, ahead of the rest of the document: of two rows with the
\* same label the first is the one compare_specs reads
Document(focus, cells, full) ==
    SelectSeq([i \in DOMAIN focus |-> Row(focus[i], cells[i])],
              LAMBDA r : r.Value # None)
        \o (IF full THEN FullDocument ELSE <<>>)

NoTable == <<>>
NoScore == Frac(0, 0)
NoReport == [score |-> -1, critical |-> -1, open_issues |-> -1]
NoTop == [n |-> -1, items |-> <<>>]
NoNorm == [param |-> "", raw |-> None, once |-> None, twice |-> None]

Init ==
    /\ \E focus \in FocusLabels :
         \E cust \in Cells(focus), eng \in Cells(focus) :
           \E cust_full \in BOOLEAN, eng_full \in BOOLEAN :
              /\ rfq_file = Document(focus, cust, cust_full)
              /\ eng_file = Document(focus, eng, eng_full)
    /\ rfq_df = NoTable
    /\ eng_df = NoTable
    /\ result_df = NoTable
    /\ score = NoScore
    /\ prev_score = NoScore
    /\ report = NoReport
    /\ top = NoTop
    /\ norm = NoNorm
    /\ pc = "uploaded"

\* app.py tab_upload: both files go through parse_file_robust
ParseFiles ==
    /\ pc = "uploaded"
    /\ rfq_df' = parse_excel_or_csv(rfq_file)
    /\ eng_df' = parse_excel_or_csv(eng_file)
    /\ pc' = "parsed"
    /\ UNCHANGED <<rfq_file, eng_file, result_df, score, prev_score, report, top, norm>>

\* app.py tab_report: result_df = compare_specs(rfq_df, eng_df)
CompareSpecs ==
    /\ pc = "parsed"
    /\ result_df' = compare_specs(rfq_df, eng_df)
    /\ pc' = "compared"
    /\ UNCHANGED <<rfq_file, eng_file, rfq_df, eng_df, score, prev_score, report, top, norm>>

\* app.py tab_report: score = weighted_compliance_score(result_df)
WeightedScore ==
    /\ pc = "compared"
    /\ score' = weighted_compliance_score(result_df)
    /\ pc' = "scored"
    /\ UNCHANGED <<rfq_file, eng_file, rfq_df, eng_df, result_df, prev_score, report, top, norm>>

\* app.py tab_exec: build_executive_pdf(result_df, ...), its KPIs
BuildExecutivePdf ==
    /\ pc = "scored"
    /\ report' = build_executive_pdf(result_df)
    /\ pc' = "reported"
    /\ UNCHANGED <<rfq_file, eng_file, rfq_df, eng_df, result_df, score, prev_score,
                   top, norm>>

Next == ParseFiles \/ CompareSpecs \/ WeightedScore \/ BuildExecutivePdf

Spec == Init /\ [][Next]_vars

---------------------------------------------------------------------------
(* The aggregator on an arbitrary matrix *)

MaxRows == 4

Criticalities == {"Critical", "Major", "Minor"}
Statuses == {"OK", "Issue", "Missing"}

\* The columns of a matrix the aggregator reads
ScoreRows == [Criticality : Criticalities, Status : Statuses]

Matrices == UNION {[1..n -> ScoreRows] : n \in 0..MaxRows}

InitScore ==
    /\ rfq_file = NoTable
    /\ eng_file = NoTable
    /\ rfq_df = NoTable
    /\ eng_df = NoTable
    /\ result_df \in Matrices
    /\ score = NoScore
    /\ prev_score = NoScore
    /\ report = NoReport
    /\ top = NoTop
    /\ norm = NoNorm
    /\ pc = "compared"

\* One row that is not OK is set to OK, the others held fixed, and the
\* matrix is scored again
FixRow ==
    /\ pc = "scored"
    /\ \E i \in DOMAIN result_df :
          /\ result_df[i].Status # "OK"
          /\ result_df' = [result_df EXCEPT ![i].Status = "OK"]
    /\ prev_score' = score
    /\ score' = weighted_compliance_score(result_df')
    /\ UNCHANGED <<rfq_file, eng_file, rfq_df, eng_df, report, top, norm, pc>>

NextScore == WeightedScore \/ FixRow

SpecScore == InitScore /\ [][NextScore]_vars

---------------------------------------------------------------------------
(* _top_issues on its own: any matrix of a few rows, any limit *)

MaxIssueRows == 3

\* The columns _top_issues reads; row i carries the label of the i-th rule,
\* so that the rows of a matrix are told apart
IssueMatrix(m) ==
    [i \in DOMAIN m |->
        [Parameter |-> PARAM_META[i].param,
         Criticality |-> m[i].Criticality,
         CustomerSpec |-> None,
         EngineeringSpec |-> None,
         Status |-> m[i].Status,
         Risk |-> risk_and_negotiation(PARAM_META[i].param, m[i].Status).risk]]

IssueMatrices == {IssueMatrix(m) : m \in UNION {[1..n -> ScoreRows] : n \in 0..MaxIssueRows}}

InitReport ==
    /\ rfq_file = NoTable
    /\ eng_file = NoTable
    /\ rfq_df = NoTable
    /\ eng_df = NoTable
    /\ result_df \in IssueMatrices
    /\ score = NoScore
    /\ prev_score = NoScore
    /\ report = NoReport
    /\ top = NoTop
    /\ norm = NoNorm
    /\ pc = "compared"

\* _top_issues(result_df, n)
TopIssues ==
    /\ pc = "compared"
    /\ \E n \in 0..MaxIssueRows : \E items \in _top_issues(result_df, n) :
          top' = [n |-> n, items |-> items]
    /\ pc' = "listed"
    /\ UNCHANGED <<rfq_file, eng_file, rfq_df, eng_df, result_df, score, prev_score,
                   report, norm>>

NextReport == TopIssues

SpecReport == InitReport /\ [][NextReport]_vars

---------------------------------------------------------------------------
(* The Equivalence Registry normalizers on their own: a raw label is
   normalized, and the result normalized again *)

EnumParams == DOMAIN EnumValues

\* The alias table behind the normalizer of a field
RegistryOf(param) ==
    CASE param \in {"Casing Material", "Impeller Material"} -> MATERIAL_EQUIV
      [] param = "Seal Plan" -> SEAL_PLAN_EQUIV
      [] param = "Motor Protection" -> PROTECTION_EQUIV
      [] param \in {"Standard - API 610", "Standard - API 682"} -> API_EQUIV

CanonicalLabels(param) ==
    {Str(RegistryOf(param)[k]) : k \in DOMAIN RegistryOf(param)}

AliasKeys(param) == {Str(k) : k \in DOMAIN RegistryOf(param)}

\* The raw labels a normalizer is given: the cell values of the field, the
\* canonical labels and the alias keys of its table, and None
RawLabels(param) ==
    EnumValues[param] \cup CanonicalLabels(param) \cup AliasKeys(param) \cup {None}

InitNormalize ==
    /\ rfq_file = NoTable
    /\ eng_file = NoTable
    /\ rfq_df = NoTable
    /\ eng_df = NoTable
    /\ result_df = NoTable
    /\ score = NoScore
    /\ prev_score = NoScore
    /\ report = NoReport
    /\ top = NoTop
    /\ \E param \in EnumParams : \E raw \in RawLabels(param) :
          norm = [param |-> param, raw |-> raw, once |-> None, twice |-> None]
    /\ pc = "raw"

\* normalize_*(raw)
Normalize ==
    /\ pc = "raw"
    /\ norm' = [norm EXCEPT !.once = NormalizeEnum(norm.param, norm.raw)]
    /\ pc' = "normalized"
    /\ UNCHANGED <<rfq_file, eng_file, rfq_df, eng_df, result_df, score, prev_score,
                   report, top>>

\* normalize_*(normalize_*(raw))
NormalizeAgain ==
    /\ pc = "normalized"
    /\ norm' = [norm EXCEPT !.twice = NormalizeEnum(norm.param, norm.once)]
    /\ pc' = "renormalized"
    /\ UNCHANGED <<rfq_file, eng_file, rfq_df, eng_df, result_df, score, prev_score,
                   report, top>>

NextNormalize == Normalize \/ NormalizeAgain

SpecNormalize == InitNormalize /\ [][NextNormalize]_vars

---------------------------------------------------------------------------
(* Properties of the comparison engine, checked under Spec *)

Compared == pc \in {"compared", "scored", "reported"}

\* No row of the parsed table df carries the parameter p
Absent(df, p) == \A i \in DOMAIN df : Strip(df[i].Parameter) # p

\* The value the parsed table df gives parameter p (its first row)
ValueIn(df, p) == ValueMap(df)[p]

IsNpsh(p) == p \in {NPSHA, NPSHR}

\* float() of the customer's NPSH Available and of the engineering NPSH
\* Required both return
PairedRuleApplies ==
    /\ ~Absent(rfq_df, NPSHA) /\ ToFloat(ValueIn(rfq_df, NPSHA)) # Raised
    /\ ~Absent(eng_df, NPSHR) /\ ToFloat(ValueIn(eng_df, NPSHR)) # Raised

\* available - required >= 1.0 (false when either is NaN)
MarginAtLeastOne ==
    LET ava == ToFloat(ValueIn(rfq_df, NPSHA))
        req == ToFloat(ValueIn(eng_df, NPSHR))
    IN  ava.t = "num" /\ req.t = "num" /\ ava.n - req.n >= 10

\* C1: compare_specs returns exactly one row per PARAM_META entry, in the
\* table's declaration order: as many rows as entries, the i-th row carrying
\* the i-th entry's parameter, so none is omitted, repeated or foreign.
C1_OneRowPerRule ==
    Compared =>
        /\ Len(result_df) = Len(PARAM_META)
        /\ \A i \in DOMAIN result_df : result_df[i].Parameter = PARAM_META[i].param
        /\ \A i, j \in DOMAIN result_df :
              i # j => result_df[i].Parameter # result_df[j].Parameter
        /\ \A i \in DOMAIN result_df : result_df[i].Parameter \in ParamNames

\* C1 witness: a comparison of documents that carry a label outside the
\* table and lack some parameter of it
C1_Witness ==
    /\ Compared
    /\ ~Absent(rfq_df, ExtraLabel)
    /\ Absent(rfq_df, "Flow (m3/h)")
    /\ ~Absent(eng_df, "Seal Plan")

\* C2: in the returned matrix a row is Missing if and only if its parameter
\* is absent from the customer document or from the engineering document.
C2_MissingIffAbsent ==
    Compared =>
        \A i \in DOMAIN result_df :
            LET p == result_df[i].Parameter
            IN  (result_df[i].Status = "Missing")
                    <=> (Absent(rfq_df, p) \/ Absent(eng_df, p))

\* C2 witness: the paired rule has rewritten the NPSH Required row to OK and
\* the NPSH Available row, absent on the engineering side, is still Missing
C2_Witness ==
    /\ Compared
    /\ PairedRuleApplies /\ MarginAtLeastOne
    /\ Absent(eng_df, NPSHA)
    /\ \E i \in DOMAIN result_df :
          result_df[i].Parameter = NPSHA /\ result_df[i].Status = "Missing"
    /\ \E i \in DOMAIN result_df :
          result_df[i].Parameter = NPSHR /\ result_df[i].Status = "OK"

\* |deviation| <= |customer value| x tolerance, resp. |deviation| <= tolerance
InSymmetricWindow(row) ==
    LET meta == MetaOf(row.Parameter)
        c == ToFloat(row.CustomerSpec)
        d == row.Deviation
    IN  /\ d.t = "num"
        /\ meta.tol_type = "rel" => c.t = "num" /\ Abs(d.n) * 100 <= Abs(c.n) * meta.tol
        /\ meta.tol_type = "abs" => Abs(d.n) * 10 <= meta.tol

\* C3 as stated: every row whose final status is OK has a null deviation
\* (enumerated kind) or a deviation within the symmetric tolerance window of
\* its parameter, the NPSH rows after the paired rule included.
C3_OkWithinWindow_AsStated ==
    Compared =>
        \A i \in DOMAIN result_df :
            result_df[i].Status = "OK" =>
                \/ (MetaOf(result_df[i].Parameter).tol_type = "enum"
                        /\ result_df[i].Deviation = None)
                \/ InSymmetricWindow(result_df[i])

\* C3 as amended: every row whose final status is OK, other than an NPSH row
\* rewritten by the paired rule, has a null deviation when its parameter is
\* enumerated and otherwise a deviation within the window of its rule:
\* deviation >= 0 for Design Pressure and Design Temperature, the symmetric
\* window for every other relative or absolute rule.
C3_OkWithinWindow ==
    Compared =>
        \A i \in DOMAIN result_df :
            LET row == result_df[i]
                meta == MetaOf(row.Parameter)
            IN  (row.Status = "OK" /\ ~(IsNpsh(row.Parameter) /\ PairedRuleApplies)) =>
                    IF meta.tol_type = "enum" THEN row.Deviation = None
                    ELSE IF IsDesignMinimum(row.Parameter)
                         THEN row.Deviation.t = "num" /\ row.Deviation.n >= 0
                         ELSE InSymmetricWindow(row)

\* C3 witness: a relative-rule row that is OK with a deviation other than 0
\* (Flow 100 against 95 is at the edge of the 5% window)
C3_Witness ==
    /\ Compared
    /\ \E i \in DOMAIN result_df :
          /\ MetaOf(result_df[i].Parameter).tol_type = "rel"
          /\ result_df[i].Status = "OK"
          /\ result_df[i].Deviation.t = "num"
          /\ result_df[i].Deviation.n # 0

\* C4: when the customer's NPSH Available and the engineering NPSH Required
\* both resolve to numbers, each NPSH row whose individual status was not
\* Missing ends OK / severity OK / risk Low if available - required >= 1.0
\* and Issue / Critical / High otherwise; a Missing NPSH row and every other
\* row stay as the per-parameter pass left them; when either number does
\* not resolve the matrix is the per-parameter pass's.
C4_NpshPairedRule ==
    Compared =>
        LET before == PerParameterRows(ValueMap(rfq_df), ValueMap(eng_df))
        IN  /\ Len(result_df) = Len(before)
            /\ \A i \in DOMAIN result_df :
                  IF PairedRuleApplies /\ IsNpsh(before[i].Parameter)
                        /\ before[i].Status # "Missing"
                  THEN /\ result_df[i].Status =
                              (IF MarginAtLeastOne THEN "OK" ELSE "Issue")
                       /\ result_df[i].Severity =
                              (IF MarginAtLeastOne THEN "OK" ELSE "Critical")
                       /\ result_df[i].Risk =
                              (IF MarginAtLeastOne THEN "Low" ELSE "High")
                  ELSE result_df[i] = before[i]

\* C4 witness: margin 0.5, so an NPSH Available row that was OK on its own
\* (5.0 on both sides) ends Issue / Critical / High
C4_Witness ==
    /\ Compared
    /\ PairedRuleApplies /\ ~MarginAtLeastOne
    /\ \E i \in DOMAIN result_df :
          /\ result_df[i].Parameter = NPSHA
          /\ result_df[i].CustomerSpec = result_df[i].EngineeringSpec
          /\ result_df[i].CustomerSpec = Num(50)
          /\ result_df[i].Status = "Issue"
          /\ result_df[i].Severity = "Critical"
          /\ result_df[i].Risk = "High"

\* C5 as stated: a parameter other than the two NPSH rows that is present on
\* both sides with the identical value, whatever the value, has status OK.
C5_Reflexive_AsStated ==
    Compared =>
        \A i \in DOMAIN result_df :
            LET row == result_df[i]
            IN  (/\ ~IsNpsh(row.Parameter)
                 /\ row.CustomerSpec # None
                 /\ row.CustomerSpec = row.EngineeringSpec) => row.Status = "OK"

\* C5 as amended: a parameter other than the two NPSH rows that is present
\* on both sides with the identical value has status OK if it is an
\* enumerated parameter, or if the value parses as a number other than NaN.
C5_Reflexive ==
    Compared =>
        \A i \in DOMAIN result_df :
            LET row == result_df[i]
            IN  (/\ ~IsNpsh(row.Parameter)
                 /\ row.CustomerSpec # None
                 /\ row.CustomerSpec = row.EngineeringSpec
                 /\ \/ MetaOf(row.Parameter).tol_type = "enum"
                    \/ ToFloat(row.CustomerSpec).t = "num") => row.Status = "OK"

\* C5 witness: a label no alias group knows, identical on both sides, is OK
C5_Witness ==
    /\ Compared
    /\ \E i \in DOMAIN result_df :
          /\ result_df[i].CustomerSpec = Str("Ductile Iron")
          /\ result_df[i].EngineeringSpec = Str("Ductile Iron")
          /\ result_df[i].Status = "OK"

\* C6 as stated: for an enumerated parameter present on both sides, labels
\* that the canonicalizer's normalization maps to the same canonical label
\* give an OK row; and Casing Material "A216 WCB" against "ASTM A216 WCB"
\* is OK.
C6_NormalizedEqualIsOk_AsStated ==
    Compared =>
        \A i \in DOMAIN result_df :
            LET row == result_df[i]
            IN  (/\ MetaOf(row.Parameter).tol_type = "enum"
                 /\ row.CustomerSpec # None /\ row.EngineeringSpec # None) =>
                    /\ NormalizeEnum(row.Parameter, row.CustomerSpec)
                          = NormalizeEnum(row.Parameter, row.EngineeringSpec)
                       => row.Status = "OK"
                    /\ (/\ row.Parameter = "Casing Material"
                        /\ row.CustomerSpec = Str("A216 WCB")
                        /\ row.EngineeringSpec = Str("ASTM A216 WCB"))
                       => row.Status = "OK"

\* C9 as stated: a numeric-kind parameter present on both sides with a side
\* that does not parse as a number has status Issue and a null deviation.
C9_CoercionFailure_AsStated ==
    Compared =>
        \A i \in DOMAIN result_df :
            LET row == result_df[i]
            IN  (/\ MetaOf(row.Parameter).tol_type # "enum"
                 /\ row.CustomerSpec # None /\ row.EngineeringSpec # None
                 /\ \/ ToFloat(row.CustomerSpec) = Raised
                    \/ ToFloat(row.EngineeringSpec) = Raised) =>
                    row.Status = "Issue" /\ row.Deviation = None

\* C9 as amended: such a row has a null deviation, and status Issue unless
\* it is an NPSH row rewritten by the paired rule, which then has the paired
\* rule's status (OK when available - required >= 1.0, else Issue).
C9_CoercionFailure ==
    Compared =>
        \A i \in DOMAIN result_df :
            LET row == result_df[i]
            IN  (/\ MetaOf(row.Parameter).tol_type # "enum"
                 /\ row.CustomerSpec # None /\ row.EngineeringSpec # None
                 /\ \/ ToFloat(row.CustomerSpec) = Raised
                    \/ ToFloat(row.EngineeringSpec) = Raised) =>
                    /\ row.Deviation = None
                    /\ row.Status =
                         (IF IsNpsh(row.Parameter) /\ PairedRuleApplies /\ MarginAtLeastOne
                          THEN "OK" ELSE "Issue")

\* C9 witness: the paired rule applies with a failing margin, and an NPSH
\* row with an unparseable side ends Issue with no deviation
C9_Witness ==
    /\ Compared
    /\ PairedRuleApplies /\ ~MarginAtLeastOne
    /\ \E i \in DOMAIN result_df :
          /\ IsNpsh(result_df[i].Parameter)
          /\ Str("abc") \in {result_df[i].CustomerSpec, result_df[i].EngineeringSpec}
          /\ result_df[i].CustomerSpec # None /\ result_df[i].EngineeringSpec # None
          /\ result_df[i].Status = "Issue"
          /\ result_df[i].Deviation = None

\* C10 as stated: the value the tabular adapter returns for a recognized
\* parameter is the value the field extractor's canonicalization stage
\* gives the same raw value.
C10_TabularCanonicalizes_AsStated ==
    pc # "uploaded" =>
        /\ Len(rfq_df) = Len(rfq_file)
        /\ \A i \in DOMAIN rfq_df :
              rfq_df[i].Parameter \in ParamNames =>
                 rfq_df[i].Value = Canonicalize(rfq_df[i].Parameter, rfq_file[i].Value)

---------------------------------------------------------------------------
(* Properties of the aggregator, checked under SpecScore *)

\* The rows of result_df with the given criticality, and those of them OK
RowsOf(crit) == {i \in DOMAIN result_df : result_df[i].Criticality = crit}
OkRowsOf(crit) == {i \in RowsOf(crit) : result_df[i].Status = "OK"}

TotalWeight ==
    3 * Cardinality(RowsOf("Critical")) + 2 * Cardinality(RowsOf("Major"))
        + Cardinality(RowsOf("Minor"))
OkWeight ==
    3 * Cardinality(OkRowsOf("Critical")) + 2 * Cardinality(OkRowsOf("Major"))
        + Cardinality(OkRowsOf("Minor"))

\* C7: the score is 100 x (weight of the OK rows) / (weight of all rows)
\* with weights Critical 3, Major 2, Minor 1; 0.0 for the empty matrix;
\* between 0 and 100, and 100 only when every row is OK.
C7_WeightedScore ==
    pc = "scored" =>
        /\ score.d > 0
        /\ IF result_df = <<>> THEN score.n = 0
           ELSE score.n * TotalWeight = 100 * OkWeight * score.d
        /\ 0 <= score.n /\ score.n <= 100 * score.d
        /\ score.n = 100 * score.d =>
              \A i \in DOMAIN result_df : result_df[i].Status = "OK"

\* C7 witness: a scored matrix with rows of different criticality, some OK
\* and some not
C7_Witness ==
    /\ pc = "scored"
    /\ OkRowsOf("Major") # {}
    /\ RowsOf("Critical") # OkRowsOf("Critical")
    /\ RowsOf("Minor") # {}
    /\ score.n > 0 /\ score.n < 100 * score.d

\* C8: setting one row's status from Issue or Missing to OK, the others held
\* fixed, never decreases the score.
C8_ScoreMonotonic ==
    (pc = "scored" /\ prev_score # NoScore) =>
        score.n * prev_score.d >= prev_score.n * score.d

\* C8 witness: a row was set to OK in a matrix that had OK rows already,
\* and other rows are still not OK
C8_Witness ==
    /\ pc = "scored"
    /\ prev_score # NoScore
    /\ prev_score.n > 0
    /\ \E i \in DOMAIN result_df : result_df[i].Status # "OK"

---------------------------------------------------------------------------
(* Properties of the summary generator *)

\* C11 as stated: the score build_executive_pdf returns is the aggregator's
\* criticality-weighted score, rounded to one decimal.
C11_ReportScoreIsWeighted_AsStated ==
    pc = "reported" => report.score = RoundTenths(score.n, 100 * score.d)

\* The row of the matrix an issue text was printed from
RowNumber(item) == CHOOSE i \in DOMAIN result_df : result_df[i].Parameter = item.Parameter

Listed(i) == \E k \in DOMAIN top.items : RowNumber(top.items[k]) = i

\* The list holds only Issue and Missing rows of the matrix, each at most
\* once and at most n of them, in descending weight, and no row left out
\* weighs more than a row listed.
TopIssuesRanked ==
    pc = "listed" =>
        LET items == top.items
            w(i) == IssueWeight(result_df[i].Criticality)
        IN  /\ Len(items) <= top.n
            /\ \A k \in DOMAIN items :
                  /\ \E i \in DOMAIN result_df : items[k] = IssueText(result_df[i])
                  /\ items[k].Status \in {"Issue", "Missing"}
            /\ \A k, l \in DOMAIN items :
                  k < l => /\ RowNumber(items[k]) # RowNumber(items[l])
                           /\ w(RowNumber(items[k])) >= w(RowNumber(items[l]))
            /\ \A i \in DOMAIN result_df :
                  (result_df[i].Status # "OK" /\ ~Listed(i)) =>
                      /\ Len(items) = top.n
                      /\ \A k \in DOMAIN items : w(i) <= w(RowNumber(items[k]))

\* Rows of equal weight are listed in their order in the matrix.
TiesInRuleOrder ==
    pc = "listed" =>
        LET items == top.items
            w(i) == IssueWeight(result_df[i].Criticality)
        IN  \A k, l \in DOMAIN items :
                (k < l /\ w(RowNumber(items[k])) = w(RowNumber(items[l])))
                    => RowNumber(items[k]) < RowNumber(items[l])

\* C12 as stated: the top issues are the Issue and Missing rows, at most n,
\* by descending criticality weight, rows of equal weight in their original
\* rule order, and no omitted row outweighs a listed one.
C12_TopIssues_AsStated == TopIssuesRanked /\ TiesInRuleOrder

---------------------------------------------------------------------------
(* Non-interference of the labels outside the Rule Table, under Spec *)

\* What a parsed table says about the Rule Table's parameters and nothing
\* else: one row per PARAM_META parameter it has, with the value
\* compare_specs reads for it
RuleEntries(df) ==
    LET m == ValueMap(df)
        row(i) == LET k == PARAM_META[i].param
                  IN  Row(k, IF k \in DOMAIN m THEN m[k] ELSE None)
    IN  SelectSeq([i \in DOMAIN PARAM_META |-> row(i)], LAMBDA r : r.Value # None)

HasLabel(df, label) == \E i \in DOMAIN df : df[i].Parameter = label

\* C13: the matrix depends on the two documents only through the values (or
\* absence) of the PARAM_META parameters: it is the matrix of the documents
\* reduced to those entries, so two input pairs with the same PARAM_META
\* entries, whatever other labels they carry, get identical matrices.
C13_OnlyRuleTableMatters ==
    Compared => result_df = compare_specs(RuleEntries(rfq_df), RuleEntries(eng_df))

\* A customer document with a row outside the Rule Table and no Seal Plan,
\* against an engineering document without such a row, has been compared
C13_Witness ==
    /\ Compared
    /\ HasLabel(rfq_df, ExtraLabel)
    /\ Absent(rfq_df, "Seal Plan")
    /\ ~HasLabel(eng_df, ExtraLabel)
    /\ rfq_df # RuleEntries(rfq_df)

---------------------------------------------------------------------------
(* The absolute rules, under Spec *)

AbsoluteMinimumParams == {"Design Pressure (bar)", "Design Temperature (C)"}

\* The tolerances the Rule Table declares
DeclaredTolerances == {PARAM_META[i].tol : i \in DOMAIN PARAM_META}

\* C14 as stated: when both sides of an absolute-kind row are numeric, a
\* Design Pressure or Design Temperature row is OK exactly when the
\* engineering value is at least the customer value, whatever tolerance is
\* declared, and the row of every other absolute-kind parameter is OK exactly
\* when |engineering - customer| <= tolerance.
C14_AbsoluteMinimum_AsStated ==
    Compared =>
        \A i \in DOMAIN result_df :
            LET row == result_df[i]
                meta == MetaOf(row.Parameter)
                c == ToFloat(row.CustomerSpec)
                e == ToFloat(row.EngineeringSpec)
                numeric == /\ row.CustomerSpec # None /\ row.EngineeringSpec # None
                           /\ c # Raised /\ e # Raised
                at_least == c.t = "num" /\ e.t = "num" /\ e.n >= c.n
                within == c.t = "num" /\ e.t = "num" /\ Abs(e.n - c.n) * 10 <= meta.tol
                ok(tol) == _compare_numeric(row.Parameter, row.CustomerSpec,
                                            row.EngineeringSpec, tol, "abs").ok
            IN  (meta.tol_type = "abs" /\ numeric) =>
                    IF row.Parameter \in AbsoluteMinimumParams
                    THEN /\ row.Status = "OK" <=> at_least
                         /\ \A tol \in DeclaredTolerances : ok(tol) <=> at_least
                    ELSE row.Status = "OK" <=> within

\* C14 as amended: when both sides of an absolute-kind row are numeric, a
\* Design Pressure or Design Temperature row is OK exactly when the
\* engineering value is at least the customer value, whatever tolerance is
\* declared; every other absolute-kind parameter is judged by the symmetric
\* window |engineering - customer| <= tolerance in the per-parameter pass,
\* and that verdict is the row's status unless the NPSH paired rule rewrites
\* the row.
C14_AbsoluteMinimum ==
    Compared =>
        \A i \in DOMAIN result_df :
            LET row == result_df[i]
                meta == MetaOf(row.Parameter)
                c == ToFloat(row.CustomerSpec)
                e == ToFloat(row.EngineeringSpec)
                numeric == /\ row.CustomerSpec # None /\ row.EngineeringSpec # None
                           /\ c # Raised /\ e # Raised
                at_least == c.t = "num" /\ e.t = "num" /\ e.n >= c.n
                within == c.t = "num" /\ e.t = "num" /\ Abs(e.n - c.n) * 10 <= meta.tol
                ok(tol) == _compare_numeric(row.Parameter, row.CustomerSpec,
                                            row.EngineeringSpec, tol, "abs").ok
            IN  (meta.tol_type = "abs" /\ numeric) =>
                    IF row.Parameter \in AbsoluteMinimumParams
                    THEN /\ row.Status = "OK" <=> at_least
                         /\ \A tol \in DeclaredTolerances : ok(tol) <=> at_least
                    ELSE /\ ok(meta.tol) <=> within
                         /\ ~(IsNpsh(row.Parameter) /\ PairedRuleApplies)
                                => (row.Status = "OK" <=> within)

\* C14 witness: a Design Temperature row is OK with the engineering value
\* above the customer value
C14_Witness ==
    /\ Compared
    /\ \E i \in DOMAIN result_df :
          /\ result_df[i].Parameter = "Design Temperature (C)"
          /\ result_df[i].Status = "OK"
          /\ result_df[i].Deviation.t = "num"
          /\ result_df[i].Deviation.n > 0

---------------------------------------------------------------------------
(* Severity, under Spec *)

\* C15: in every matrix compare_specs returns, the rows rewritten by the NPSH
\* paired rule included, a row's severity is OK exactly when its status is
\* OK, and otherwise it is the criticality the Rule Table declares for the
\* row's parameter.
C15_SeverityFollowsStatus ==
    Compared =>
        \A i \in DOMAIN result_df :
            LET row == result_df[i]
            IN  /\ row.Severity = "OK" <=> row.Status = "OK"
                /\ row.Status # "OK" => row.Severity = MetaOf(row.Parameter).criticality

\* C15 witness: the paired rule has turned an NPSH Available row whose two
\* values are equal into an Issue, and a Major or Minor row is not OK
C15_Witness ==
    /\ Compared
    /\ \E i \in DOMAIN result_df :
          /\ result_df[i].Parameter = NPSHA
          /\ result_df[i].Deviation = Num(0)
          /\ result_df[i].Status = "Issue"
          /\ result_df[i].Severity = "Critical"
    /\ \E i \in DOMAIN result_df :
          /\ result_df[i].Status # "OK"
          /\ result_df[i].Severity \in {"Major", "Minor"}

---------------------------------------------------------------------------
(* Properties of the Equivalence Registry, checked under SpecNormalize *)

\* The text a normalizer looks up: lower case, trimmed; blanks collapsed for
\* protections and standards; "api" and "plan" removed for seal plans
AliasText(param, x) ==
    CASE param \in {"Casing Material", "Impeller Material"} -> StripLower[PyStr(x)]
      [] param = "Seal Plan" -> SealPlanText[PyStr(x)]
      [] OTHER -> CollapseSpaces(StripLower[PyStr(x)])

\* The table of the field has an alias entry for the label
HasAliasEntry(param, x) ==
    /\ x # None
    /\ AliasText(param, x) \in DOMAIN RegistryOf(param)

\* C16: for each normalizer and every raw label x, normalizing the
\* normalized label changes nothing; a label with no alias entry comes back
\* unchanged; every canonical label is a fixed point of its normalizer.
C16_NormalizationIdempotent ==
    /\ pc \in {"normalized", "renormalized"} =>
          /\ ~HasAliasEntry(norm.param, norm.raw) => norm.once = norm.raw
          /\ norm.raw \in CanonicalLabels(norm.param) => norm.once = norm.raw
    /\ pc = "renormalized" => norm.twice = norm.once

\* C16 witness: an alias that is not canonical was normalized to another
\* label, and normalizing again returned that label
C16_Witness ==
    /\ pc = "renormalized"
    /\ HasAliasEntry(norm.param, norm.raw)
    /\ norm.once # norm.raw
    /\ norm.twice = norm.once

=============================================================================
